---- MODULE Spec2Model ----
(***************************************************************************)
(* Webvizio MCP server: the tool handlers of src/src/server.ts, the HTTP   *)
(* adapter of src/src/webvizio-client.ts, the configuration loader of      *)
(* src/src/config.ts and the entry point (src/src/types.ts, lines 29-113). *)
(*                                                                         *)
(* JavaScript values are records [t, s, f]: t is the typeof tag (with      *)
(* "null" and "array" told apart), s the text of a scalar, f the members   *)
(* of an object or array.  Texts are TLA+ strings, built with \o exactly   *)
(* where the code builds them with template literals.                      *)
(***************************************************************************)
EXTENDS Integers, Sequences, FiniteSets, TLC

\* ------------------------------------------------------------------ bounds
\* Tool invocations that may be in flight at once (pipelined requests).
NumInv == 2
\* Longest image payload, in bytes, the image host answers with.
MaxImageLen == 3

\* ------------------------------------------------------- JavaScript values
\* A scalar is [t, s]; a value is [t, s, f], f being the members of an
\* object (or the items of an array) as <<key, scalar>> pairs in insertion
\* order, which is the order JSON.stringify writes them in.
ScUndef == [t |-> "undefined", s |-> ""]
ScStr(x) == [t |-> "string", s |-> x]
ScBool(b) == [t |-> "boolean", s |-> IF b THEN "true" ELSE "false"]

JUndef == [t |-> "undefined", s |-> "", f |-> <<>>]
JNull == [t |-> "null", s |-> "", f |-> <<>>]
JStr(x) == [t |-> "string", s |-> x, f |-> <<>>]
JNum(n) == [t |-> "number", s |-> ToString(n), f |-> <<>>]
JBool(b) == [t |-> "boolean", s |-> IF b THEN "true" ELSE "false", f |-> <<>>]
JObj(members) == [t |-> "object", s |-> "", f |-> members]
JArr(items) == [t |-> "array", s |-> "", f |-> items]
Lift(sc) == [t |-> sc.t, s |-> sc.s, f |-> <<>>]

RECURSIVE Lookup(_, _)
Lookup(members, k) ==
  IF members = <<>> THEN ScUndef
  ELSE IF Head(members)[1] = k THEN Head(members)[2]
  ELSE Lookup(Tail(members), k)

\* !!v
Truthy(v) ==
  CASE v.t \in {"undefined", "null"} -> FALSE
    [] v.t = "boolean" -> v.s = "true"
    [] v.t = "number" -> v.s # "0"
    [] v.t = "string" -> v.s # ""
    [] OTHER -> TRUE

Nullish(v) == v.t \in {"undefined", "null"}

\* typeof v
TypeOf(v) == IF v.t \in {"null", "array"} THEN "object" ELSE v.t

\* v.k for a v that is neither null nor undefined
Get(v, k) == IF v.t = "object" THEN Lift(Lookup(v.f, k)) ELSE JUndef

\* v?.k
OptGet(v, k) == IF Nullish(v) THEN JUndef ELSE Get(v, k)

\* a || b
Or(a, b) == IF Truthy(a) THEN a ELSE b

\* v.length
LengthOf(v) ==
  CASE v.t = "array" -> JNum(Len(v.f))
    [] v.t = "string" -> JNum(Len(v.s))
    [] OTHER -> JUndef

RECURSIVE Join(_, _)
Join(parts, sep) ==
  IF parts = <<>> THEN ""
  ELSE IF Len(parts) = 1 THEN parts[1]
  ELSE parts[1] \o sep \o Join(Tail(parts), sep)

\* `${v}`
Str(v) ==
  CASE v.t = "undefined" -> "undefined"
    [] v.t = "null" -> "null"
    [] v.t = "object" -> "[object Object]"
    [] v.t = "array" -> Join([n \in 1..Len(v.f) |-> v.f[n][2].s], ",")
    [] OTHER -> v.s

Quote(x) == "\"" \o x \o "\""

ScJson(sc) == IF sc.t = "string" THEN Quote(sc.s) ELSE sc.s

\* `${JSON.stringify(v, null, 2)}`
Stringify(v) ==
  CASE v.t = "undefined" -> "undefined"
    [] v.t = "null" -> "null"
    [] v.t = "string" -> Quote(v.s)
    [] v.t = "object" ->
         IF v.f = <<>> THEN "{}"
         ELSE "{\n"
              \o Join([n \in 1..Len(v.f) |-> "  " \o Quote(v.f[n][1]) \o ": " \o ScJson(v.f[n][2])], ",\n")
              \o "\n}"
    [] v.t = "array" ->
         IF v.f = <<>> THEN "[]"
         ELSE "[\n" \o Join([n \in 1..Len(v.f) |-> "  " \o ScJson(v.f[n][2])], ",\n") \o "\n]"
    [] OTHER -> v.s

\* text starts with prefix
StartsWith(text, prefix) ==
  Len(text) >= Len(prefix) /\ SubSeq(text, 1, Len(prefix)) = prefix

\* --------------------------------------------------- thrown values, results
\* A thrown value: cls "McpError" is a plain object with the keys code,
\* message, details; "Error" and "TypeError" are Error objects with a message
\* and no code; "AxiosError" is the HTTP library's Error object, which has a
\* string code and a message; "value" is any other thrown value, val.
NoExc == [cls |-> "none"]
McpError(c, m, d) == [cls |-> "McpError", code |-> c, message |-> m, details |-> d, val |-> JUndef]
ErrorOf(m) == [cls |-> "Error", code |-> JUndef, message |-> JStr(m), details |-> JUndef, val |-> JUndef]
TypeErrorOf(m) == [cls |-> "TypeError", code |-> JUndef, message |-> JStr(m), details |-> JUndef, val |-> JUndef]
AxiosErrorOf(c, m) == [cls |-> "AxiosError", code |-> JStr(c), message |-> JStr(m), details |-> JUndef, val |-> JUndef]
ThrownValue(v) == [cls |-> "value", code |-> JUndef, message |-> JUndef, details |-> JUndef, val |-> v]

\* What an awaited call ends with: a value returned or a value thrown.
Return(v) == [ok |-> TRUE, val |-> v, exc |-> NoExc]
Throw(e) == [ok |-> FALSE, val |-> JUndef, exc |-> e]
\* The adapter was not called at all.
NotCalled == [ok |-> FALSE, val |-> JUndef, exc |-> NoExc]

\* ------------------------------------------------------------ HTTP layer
\* How one HTTP exchange ends, as the HTTP library sees it: a response
\* (status, statusText, body; for a binary fetch the body is bytes), no
\* response to a request that was sent, the timer of a request with a timeout
\* firing, or a request that could not be built.
NoOutcome == [k |-> "none"]
Responded(st, txt, body) == [k |-> "response", status |-> st, statusText |-> txt, data |-> body, bytes |-> <<>>, message |-> ""]
RespondedBytes(st, txt, b) == [k |-> "response", status |-> st, statusText |-> txt, data |-> JUndef, bytes |-> b, message |-> ""]
NoResponse(msg) == [k |-> "noResponse", status |-> 0, statusText |-> "", data |-> JUndef, bytes |-> <<>>, message |-> msg]
SetupFailure(msg) == [k |-> "setup", status |-> 0, statusText |-> "", data |-> JUndef, bytes |-> <<>>, message |-> msg]

\* The library resolves a 2xx response and rejects everything else.
Rejects(out) == out.k # "response" \/ out.status < 200 \/ out.status > 299

\* The error object the library rejects with: response and request are set
\* when a response arrived, request alone when none did, neither when the
\* request was never built.
RejectionOf(out) ==
  [hasResponse |-> out.k = "response",
   hasRequest |-> out.k \in {"response", "noResponse"},
   status |-> out.status,
   statusText |-> out.statusText,
   data |-> out.data,
   message |-> IF out.k = "response"
               THEN "Request failed with status code " \o ToString(out.status)
               ELSE out.message]

\* The same rejection when no interceptor reduces it (the image fetch).
RawRejectionOf(out) ==
  CASE out.k = "response" ->
         AxiosErrorOf(IF out.status >= 500 THEN "ERR_BAD_RESPONSE" ELSE "ERR_BAD_REQUEST",
                      "Request failed with status code " \o ToString(out.status))
    [] out.k = "noResponse" -> AxiosErrorOf("ERR_NETWORK", out.message)
    [] OTHER -> TypeErrorOf(out.message)

OriginalError(msg) == JObj(<< <<"originalError", ScStr(msg)>> >>)

\* handleApiError with the fallbacks of the default branch in the wrong
\* order (data.error before data.message) and the network code reused for
\* a request that was never built.
handleApiErrorMixedUp(error) ==
  IF error.hasResponse THEN
    CASE error.status = 401 ->
           McpError(JNum(401), JStr("Unauthorized: Invalid or missing API key"), error.data)
      [] error.status = 403 ->
           McpError(JNum(403), JStr("Forbidden: Access denied"), error.data)
      [] error.status = 404 ->
           McpError(JNum(404), JStr("Not Found: Resource not found"), error.data)
      [] error.status = 429 ->
           McpError(JNum(429), JStr("Rate Limit Exceeded: Too many requests"), error.data)
      [] error.status = 500 ->
           McpError(JNum(500), JStr("Internal Server Error: Webvizio API error"), error.data)
      [] OTHER ->
           McpError(JNum(error.status),
                    Or(OptGet(error.data, "error"),
                       Or(OptGet(error.data, "message"),
                          JStr("HTTP " \o ToString(error.status) \o ": " \o error.statusText))),
                    error.data)
  ELSE
    McpError(JNum(0), JStr("Network Error: Unable to reach Webvizio API"),
             OriginalError(error.message))

\* WebvizioClient.handleApiError
handleApiError(error) ==
  IF error.hasResponse THEN
    CASE error.status = 401 ->
           McpError(JNum(401), JStr("Unauthorized: Invalid or missing API key"), error.data)
      [] error.status = 403 ->
           McpError(JNum(403), JStr("Forbidden: Access denied"), error.data)
      [] error.status = 404 ->
           McpError(JNum(404), JStr("Not Found: Resource not found"), error.data)
      [] error.status = 429 ->
           McpError(JNum(429), JStr("Rate Limit Exceeded: Too many requests"), error.data)
      [] error.status = 500 ->
           McpError(JNum(500), JStr("Internal Server Error: Webvizio API error"), error.data)
      [] OTHER ->
           McpError(JNum(error.status),
                    Or(OptGet(error.data, "message"),
                       Or(OptGet(error.data, "error"),
                          JStr("HTTP " \o ToString(error.status) \o ": " \o error.statusText))),
                    error.data)
  ELSE IF error.hasRequest THEN
    McpError(JNum(0), JStr("Network Error: Unable to reach Webvizio API"),
             OriginalError(error.message))
  ELSE
    McpError(JNum(-1), JStr("Request Error: " \o error.message),
             OriginalError(error.message))

\* await this.client.get/post(...): the response interceptor passes a
\* resolved response on and rejects with handleApiError of anything else.
ClientCall(out) ==
  IF Rejects(out) THEN Throw(handleApiError(RejectionOf(out))) ELSE Return(out.data)

\* ---------------------------------------------------- thrown-value probes
ExcTruthy(e) == IF e.cls = "value" THEN Truthy(e.val) ELSE TRUE
ExcTypeOf(e) == IF e.cls = "value" THEN TypeOf(e.val) ELSE "object"
\* 'k' in e throws a TypeError unless e is an object
InThrows(e) == e.cls = "value" /\ e.val.t \notin {"object", "array"}
HasCode(e) == e.cls \in {"McpError", "AxiosError"}
HasMessage(e) ==
  \/ e.cls \in {"McpError", "AxiosError", "Error", "TypeError"}
  \/ e.cls = "value" /\ e.val.t = "object" /\ Lookup(e.val.f, "message") # ScUndef
InstanceOfError(e) == e.cls \in {"Error", "TypeError", "AxiosError"}
ExcDetails(e) == IF e.cls = "McpError" THEN e.details ELSE JUndef
ExcMessage(e) == IF e.cls = "value" THEN OptGet(e.val, "message") ELSE e.message

\* error && typeof error === 'object' && 'code' in error && 'message' in error
\* [threw, val]: threw when evaluating the expression throws.
DuckTyped(e) ==
  IF ~ExcTruthy(e) \/ ExcTypeOf(e) # "object" THEN [threw |-> FALSE, val |-> FALSE]
  ELSE IF InThrows(e) THEN [threw |-> TRUE, val |-> FALSE]
  ELSE [threw |-> FALSE, val |-> HasCode(e) /\ HasMessage(e)]

\* WebvizioClient.isMcpError
clientIsMcpError(e) == DuckTyped(e)

\* --------------------------------------------------- adapter operations
\* Each takes the outcome of its HTTP call and gives what the operation
\* returns or throws; its catch block logs and rethrows.

\* WebvizioClient.getProjects
getProjects(out) ==
  LET r == ClientCall(out) IN
  IF ~r.ok THEN r
  ELSE IF ~Truthy(r.val) THEN
    IF Nullish(r.val)
    THEN Throw(TypeErrorOf("Cannot read properties of " \o Str(r.val) \o " (reading 'error')"))
    ELSE Throw(ErrorOf(Str(Or(Get(r.val, "error"), JStr("Failed to fetch projects")))))
  ELSE Return(r.val)

\* WebvizioClient.getCurrentProject
getCurrentProject(out) ==
  LET r == ClientCall(out) IN
  IF ~r.ok THEN r
  ELSE IF ~Truthy(r.val) THEN Throw(ErrorOf("Failed to fetch current project"))
  ELSE Return(r.val)

\* setProject returning the body whatever it is.
setProjectPassesBody(out) ==
  LET r == ClientCall(out) IN
  IF ~r.ok THEN r ELSE Return(r.val)

\* WebvizioClient.setProject
setProject(out) ==
  LET r == ClientCall(out) IN
  IF ~r.ok THEN r
  ELSE IF ~Truthy(r.val) THEN Throw(ErrorOf("Failed to set project"))
  ELSE Return(r.val)

\* The shared shape without the test of the field: whatever
\* response.data?.<field> is, is returned.
RequiredFieldUntested(out, field, failure) ==
  LET r == ClientCall(out) IN
  IF ~r.ok THEN r ELSE Return(OptGet(r.val, field))

\* The shape shared by getTaskPrompt, getTaskDescription and the log
\* operations: response.data?.<field> or a generic failure.
RequiredField(out, field, failure) ==
  LET r == ClientCall(out) IN
  IF ~r.ok THEN r
  ELSE IF ~Truthy(OptGet(r.val, field)) THEN Throw(ErrorOf(failure))
  ELSE Return(Get(r.val, field))

\* WebvizioClient.getTaskPrompt
getTaskPrompt(out) == RequiredField(out, "prompt", "Failed to get task prompt")

\* WebvizioClient.getTaskDescription
getTaskDescription(out) == RequiredField(out, "description", "Failed to get task description")

\* WebvizioClient.getTaskConsoleLogs
getTaskConsoleLogs(out) == RequiredField(out, "prompt", "Failed to get console logs prompt")

\* WebvizioClient.getTaskNetworkLogs
getTaskNetworkLogs(out) == RequiredField(out, "prompt", "Failed to get network logs prompt")

\* WebvizioClient.getTaskActionLogs
getTaskActionLogs(out) == RequiredField(out, "prompt", "Failed to get action logs prompt")

\* closeTask refusing a success flag that is not truthy.
closeTaskTestsSuccess(out) ==
  LET r == ClientCall(out) IN
  IF ~r.ok THEN r
  ELSE IF ~Truthy(OptGet(r.val, "success")) THEN Throw(ErrorOf("Failed to close task"))
  ELSE Return(Get(r.val, "success"))

\* WebvizioClient.closeTask: response.data.success, with no check of it
closeTask(out) ==
  LET r == ClientCall(out) IN
  IF ~r.ok THEN r
  ELSE IF Nullish(r.val)
  THEN Throw(TypeErrorOf("Cannot read properties of " \o Str(r.val) \o " (reading 'success')"))
  ELSE Return(Get(r.val, "success"))

\* getTasks comparing the message of the reduced error, not the message in
\* its details.
getTasksReadsMessage(out) ==
  LET r == ClientCall(out)
      t == IF ~r.ok THEN r
           ELSE IF ~Truthy(r.val) THEN Throw(ErrorOf("Failed to fetch tasks"))
           ELSE Return(r.val)
  IN
  IF t.ok THEN t
  ELSE IF clientIsMcpError(t.exc).val /\ t.exc.message = JStr("Project not found")
  THEN Return(JBool(FALSE))
  ELSE t

\* WebvizioClient.getTasks: the catch block turns a reduced error whose
\* details carry the message "Project not found" into the value false.
getTasks(out) ==
  LET r == ClientCall(out)
      t == IF ~r.ok THEN r
           ELSE IF ~Truthy(r.val) THEN Throw(ErrorOf("Failed to fetch tasks"))
           ELSE Return(r.val)
  IN
  IF t.ok THEN t
  ELSE IF clientIsMcpError(t.exc).threw THEN Throw(TypeErrorOf("Cannot use 'in' operator"))
  ELSE IF clientIsMcpError(t.exc).val
          /\ OptGet(ExcDetails(t.exc), "message") = JStr("Project not found")
  THEN Return(JBool(FALSE))
  ELSE t

\* ------------------------------------------------------- tool responses
\* A tool response: one content item (text, or image with data and
\* mimeType) and the isError mark (absent in the code is FALSE here).
NoResp == [isError |-> FALSE, type |-> "none", text |-> "", data |-> JUndef, mimeType |-> ""]
TextResp(txt) == [isError |-> FALSE, type |-> "text", text |-> txt, data |-> JUndef, mimeType |-> ""]
ErrorResp(txt) == [isError |-> TRUE, type |-> "text", text |-> txt, data |-> JUndef, mimeType |-> ""]
ImageResp(d) == [isError |-> FALSE, type |-> "image", text |-> "", data |-> d, mimeType |-> "image/png"]

\* What a handler ends with: the response it returns, the value its catch
\* block caught (NoExc when none), and whether an exception left the handler.
Responds(r) == [escaped |-> FALSE, caught |-> NoExc, resp |-> r]
Escapes(e) == [escaped |-> TRUE, caught |-> e, resp |-> NoResp]

\* isMcpError without its first operand (error &&): typeof null is 'object',
\* and 'code' in null throws.
isMcpErrorNoTruthTest(e) ==
  IF ExcTypeOf(e) # "object" THEN [threw |-> FALSE, val |-> FALSE]
  ELSE IF InThrows(e) THEN [threw |-> TRUE, val |-> FALSE]
  ELSE [threw |-> FALSE, val |-> HasCode(e) /\ HasMessage(e)]

\* WebvizioMcpServer.isMcpError
isMcpError(e) == DuckTyped(e)

\* WebvizioMcpServer.handleError
handleError(error) ==
  IF isMcpError(error).threw THEN Escapes(error)
  ELSE IF isMcpError(error).val THEN
    [escaped |-> FALSE, caught |-> error,
     resp |-> ErrorResp("Error " \o Str(error.code) \o ": " \o Str(error.message)
                        \o (IF Truthy(ExcDetails(error))
                            THEN "\nDetails: " \o Stringify(ExcDetails(error))
                            ELSE ""))]
  ELSE
    [escaped |-> FALSE, caught |-> error,
     resp |-> ErrorResp("Error: " \o (IF InstanceOfError(error)
                                      THEN Str(error.message)
                                      ELSE "Unknown error occurred"))]

Tools ==
  {"get_projects", "get_current_project", "set_project", "get_tasks",
   "get_task_description", "get_task_prompt", "get_task_console_logs",
   "get_task_network_logs", "get_task_action_logs", "get_task_screenshot",
   "close_task"}

\* The tools whose input schema has the uuid of a project or of a task.
IdTools == Tools \ {"get_projects", "get_current_project", "get_tasks"}

NoProjectHint ==
  "No project selected. You need to get the list of projects via get_projects tool select the uuid of the required project and set it using set_project tool"

\* The handler of get_task_console_logs / network_logs / action_logs after
\* its adapter call returned logs.
LogsText(kind, logs) ==
  IF ~Truthy(logs) THEN TextResp("No " \o kind \o " logs found")
  ELSE TextResp("Task " \o kind \o " logs:\n\n" \o Str(logs))

\* set_project confirming whatever setProject returned.
SetProjectTextAlwaysOk(uuid, success) ==
  "Successfully set project " \o Str(uuid) \o " as current"

\* The text of set_project after setProject returned success.
SetProjectText(uuid, success) ==
  IF Truthy(success)
  THEN "Successfully set project " \o Str(uuid) \o " as current"
  ELSE "Failed to set project " \o Str(uuid) \o " as current"

\* The try block of each handler after its adapter call returned v.
OnReturn(tool, uuid, v) ==
  CASE tool = "get_projects" ->
         TextResp("Found " \o Str(LengthOf(v)) \o " projects:\n\n" \o Stringify(v))
    [] tool = "get_current_project" ->
         TextResp("Current project details:\n\n" \o Stringify(v))
    [] tool = "set_project" -> TextResp(SetProjectText(uuid, v))
    [] tool = "get_tasks" ->
         IF ~Truthy(v) \/ TypeOf(v) = "boolean" THEN TextResp(NoProjectHint)
         ELSE TextResp("Found " \o Str(LengthOf(v)) \o " tasks:\n\n" \o Stringify(v))
    [] tool = "get_task_description" -> TextResp("Task description:\n\n" \o Str(v))
    [] tool = "get_task_prompt" -> TextResp("Task prompt:\n\n" \o Str(v))
    [] tool = "get_task_console_logs" -> LogsText("console", v)
    [] tool = "get_task_network_logs" -> LogsText("network", v)
    [] tool = "get_task_action_logs" -> LogsText("action", v)
    [] tool = "get_task_screenshot" -> ImageResp(v)
    [] OTHER -> TextResp("Task closed successfully")

\* The try block of a handler throwing after its adapter call returned v:
\* get_projects reads projects.length, a TypeError on null and undefined;
\* get_tasks reads tasks.length only behind its test of !tasks.
TryThrows(tool, v) == tool = "get_projects" /\ Nullish(v)

\* A handler from the point where its adapter call ended with r.
Settle(tool, uuid, r) ==
  IF ~r.ok THEN handleError(r.exc)
  ELSE IF TryThrows(tool, r.val)
  THEN handleError(TypeErrorOf("Cannot read properties of " \o Str(r.val) \o " (reading 'length')"))
  ELSE Responds(OnReturn(tool, uuid, r.val))

\* The check a handler makes before it calls the adapter: only set_project
\* has one (if (!args.uuid) throw ...).  TRUE lets the call through.
ArgsAccepted(tool, uuid) == tool = "set_project" => Truthy(uuid)

\* ------------------------------------------------------ outbound requests
ClientTimeoutMs == 30000

NoReq == [via |-> "none"]

\* The path and verb each adapter operation asks this.client for.
Endpoint(tool, uuid) ==
  CASE tool = "get_projects" -> <<"GET", "/projects">>
    [] tool = "get_current_project" -> <<"GET", "/current-project">>
    [] tool = "set_project" -> <<"POST", "/set-project">>
    [] tool = "get_tasks" -> <<"GET", "/tasks">>
    [] tool = "get_task_description" -> <<"GET", "/task/" \o Str(uuid)>>
    [] tool = "get_task_prompt" -> <<"GET", "/task/" \o Str(uuid) \o "/prompt">>
    [] tool = "get_task_console_logs" -> <<"GET", "/task/" \o Str(uuid) \o "/console-logs">>
    [] tool = "get_task_network_logs" -> <<"GET", "/task/" \o Str(uuid) \o "/network-logs">>
    [] tool = "get_task_action_logs" -> <<"GET", "/task/" \o Str(uuid) \o "/action-logs">>
    [] tool = "get_task_screenshot" -> <<"GET", "/task/" \o Str(uuid) \o "/screenshot">>
    [] OTHER -> <<"POST", "/task/" \o Str(uuid) \o "/close">>

\* A client built without the Authorization default.
ClientRequestNoAuth(key, tool, uuid) ==
  [via |-> "client", method |-> Endpoint(tool, uuid)[1], url |-> Endpoint(tool, uuid)[2],
   auth |-> "", timeout |-> ClientTimeoutMs]

\* A request made through this.client: the defaults of axios.create in the
\* constructor (Authorization, timeout) go with every one of them.
ClientRequest(key, tool, uuid) ==
  [via |-> "client", method |-> Endpoint(tool, uuid)[1], url |-> Endpoint(tool, uuid)[2],
   auth |-> "Bearer " \o key, timeout |-> ClientTimeoutMs]

\* axios.get(url, {responseType: 'arraybuffer'}) on the library's global
\* instance: no headers of the client, and the library's default timeout 0,
\* which means none.
ImageRequest(url) ==
  [via |-> "axios", method |-> "GET", url |-> url, auth |-> "", timeout |-> 0]

\* ---------------------------------------------------------------- base64
Base64Alphabet == "ABCDEFGHIJKLMNOPQRSTUVWXYZabcdefghijklmnopqrstuvwxyz0123456789+/"
Base64Char(n) == SubSeq(Base64Alphabet, n + 1, n + 1)

\* An encoder that drops a last group of fewer than three bytes.
RECURSIVE Base64WholeGroups(_)
Base64WholeGroups(bytes) ==
  IF Len(bytes) < 3 THEN ""
  ELSE
    Base64Char(bytes[1] \div 4)
      \o Base64Char((bytes[1] % 4) * 16 + bytes[2] \div 16)
      \o Base64Char((bytes[2] % 16) * 4 + bytes[3] \div 64)
      \o Base64Char(bytes[3] % 64)
      \o Base64WholeGroups(SubSeq(bytes, 4, Len(bytes)))

\* Buffer.from(bytes, 'binary').toString('base64'): three bytes give four
\* characters; a last group of one or two bytes is padded with "=".
RECURSIVE Base64(_)
Base64(bytes) ==
  IF bytes = <<>> THEN ""
  ELSE IF Len(bytes) = 1 THEN
    Base64Char(bytes[1] \div 4) \o Base64Char((bytes[1] % 4) * 16) \o "=="
  ELSE IF Len(bytes) = 2 THEN
    Base64Char(bytes[1] \div 4)
      \o Base64Char((bytes[1] % 4) * 16 + bytes[2] \div 16)
      \o Base64Char((bytes[2] % 16) * 4) \o "="
  ELSE
    Base64Char(bytes[1] \div 4)
      \o Base64Char((bytes[1] % 4) * 16 + bytes[2] \div 16)
      \o Base64Char((bytes[2] % 16) * 4 + bytes[3] \div 64)
      \o Base64Char(bytes[3] % 64)
      \o Base64(SubSeq(bytes, 4, Len(bytes)))

\* WebvizioClient.getTaskScreenshot up to the second fetch: what the
\* metadata call gives, the URL to fetch when it returns.
ScreenshotMeta(out) == RequiredField(out, "screenshot", "Failed to get task screenshot")

\* WebvizioClient.getTaskScreenshot from the second fetch on: a rejection
\* of the global axios instance is rethrown as it is.
ScreenshotImage(out) ==
  IF Rejects(out) THEN Throw(RawRejectionOf(out)) ELSE Return(JStr(Base64(out.bytes)))

\* The adapter operation behind each tool, applied to the outcome of its
\* call through this.client.
Adapter(tool, out) ==
  CASE tool = "get_projects" -> getProjects(out)
    [] tool = "get_current_project" -> getCurrentProject(out)
    [] tool = "set_project" -> setProject(out)
    [] tool = "get_tasks" -> getTasks(out)
    [] tool = "get_task_description" -> getTaskDescription(out)
    [] tool = "get_task_prompt" -> getTaskPrompt(out)
    [] tool = "get_task_console_logs" -> getTaskConsoleLogs(out)
    [] tool = "get_task_network_logs" -> getTaskNetworkLogs(out)
    [] tool = "get_task_action_logs" -> getTaskActionLogs(out)
    [] tool = "get_task_screenshot" -> ScreenshotMeta(out)
    [] OTHER -> closeTask(out)

\* ------------------------------------------------------------ configuration
BaseUrl == "https://app.webvizio.com/api/mcp/v1/"
NoConfig == [apiKey |-> ""]

\* getConfig giving an empty key instead of throwing.
getConfigWithoutTest(key) == Return(IF Truthy(key) THEN key ELSE JStr(""))

\* getConfig: the key from the environment, or a throw when it is not set
getConfig(key) ==
  IF ~Truthy(key) THEN Throw(ErrorOf("WEBVIZIO_API_KEY environment variable is required"))
  ELSE Return(key)

\* ------------------------------------------------------- the values drawn
Invs == 1..NumInv
\* process.env.WEBVIZIO_API_KEY at start-up: not set, empty, or a key.
EnvKeys == {JUndef, JStr(""), JStr("wv-key-1")}
Uuids == {JStr(""), JStr("proj-123")}
ProjectNotFound == JObj(<< <<"message", ScStr("Project not found")>> >>)
TaskBody ==
  JObj(<< <<"prompt", ScStr("Fix the header")>>,
          <<"description", ScStr("Header overlaps the logo")>>,
          <<"screenshot", ScStr("https://cdn.example/shot.png")>>,
          <<"success", ScBool(FALSE)>> >>)
Bodies == {JNull, JStr(""), JObj(<<>>), ProjectNotFound, TaskBody, JArr(<< <<"0", ScStr("p-1")>> >>)}
ApiStatuses == {200, 401, 404}
ImageStatuses == {200, 404}
ByteVals == {0, 137, 255}
RECURSIVE BytesUpTo(_)
BytesUpTo(n) ==
  IF n = 0 THEN {<<>>}
  ELSE BytesUpTo(n - 1) \cup {Append(b, x) : b \in {c \in BytesUpTo(n - 1) : Len(c) = n - 1}, x \in ByteVals}
Images == BytesUpTo(MaxImageLen)
StatusText(st) ==
  CASE st = 200 -> "OK" [] st = 401 -> "Unauthorized" [] st = 404 -> "Not Found" [] OTHER -> ""

\* ------------------------------------------------------------------ state
VARIABLES
  env,       \* process.env.WEBVIZIO_API_KEY
  proc,      \* "boot", "serving" or "exited"
  config,    \* the configuration the adapter was built with
  inv,       \* per invocation: where its handler is suspended, and on what
  emitted,   \* the response a handler has just returned, being written out
  reduction, \* the last error given to handleApiError, and its result
  stderr,    \* the lines main() wrote with console.error
  exitCode   \* the argument of process.exit, undefined while the process runs

vars == <<env, proc, config, inv, emitted, reduction, stderr, exitCode>>

Idle == [pc |-> "idle"]
NoEmit == [id |-> 0]
NoReduction == [result |-> NoExc]

\* The record of a finished handler: the invocation, what its calls ended
\* with, what the adapter gave (ret), and what the handler made of it.
Emit(i, call, n, apiOut, imgOut, r, h) ==
  [id |-> i, tool |-> call.tool, uuid |-> call.uuid, nreq |-> n, api |-> apiOut, img |-> imgOut,
   ret |-> r, caught |-> h.caught, escaped |-> h.escaped, resp |-> h.resp]

Init ==
  /\ env \in EnvKeys
  /\ proc = "boot"
  /\ config = NoConfig
  /\ inv = [i \in Invs |-> Idle]
  /\ emitted = NoEmit
  /\ reduction = NoReduction
  /\ stderr = <<>>
  /\ exitCode = JUndef

\* String.prototype.includes
Includes(text, sub) ==
  \E k \in 1..(Len(text) - Len(sub) + 1) : SubSeq(text, k, k + Len(sub) - 1) = sub

\* The help main() prints for a failure that names the key (the lines of
\* its console.error calls).
ConfigurationHelp ==
  <<"",
    "Configuration Help:",
    "  You can provide the API key in two ways:",
    "  1. As a command line argument:",
    "     npx webvizio-mcp WEBVIZIO_API_KEY=your_key_here",
    "  2. As an environment variable:",
    "     - Copy .env.example to .env",
    "     - Set your WEBVIZIO_API_KEY in the .env file",
    "",
    "",
    "Example command line usage:",
    "  npx webvizio-mcp WEBVIZIO_API_KEY=your_actual_api_key_here">>

\* The catch block of main(): the failure, then the help when the failure
\* is an Error whose message includes WEBVIZIO_API_KEY.
StartFailure(e) ==
  <<"Failed to start Webvizio MCP Server: Error: " \o Str(ExcMessage(e))>>
    \o (IF InstanceOfError(e) /\ Includes(Str(ExcMessage(e)), "WEBVIZIO_API_KEY")
        THEN ConfigurationHelp ELSE <<>>)

\* main(): getConfig, then the server with its adapter, then connect; a
\* throw of getConfig ends the process with status 1.
Main ==
  /\ proc = "boot"
  /\ IF getConfig(env).ok
     THEN /\ config' = [apiKey |-> getConfig(env).val.s, baseUrl |-> BaseUrl]
          /\ proc' = "serving"
          /\ UNCHANGED <<stderr, exitCode>>
     ELSE /\ config' = config
          /\ proc' = "exited"
          /\ stderr' = StartFailure(getConfig(env).exc)
          /\ exitCode' = JNum(1)
  /\ UNCHANGED <<env, inv, emitted, reduction>>

\* No finished handler is waiting for its response to be written: the
\* event loop takes the next event only then.
Quiet == emitted.id = 0

\* A handler runs from its invocation to its await: set_project throws on
\* an empty uuid and ends in handleError; every other path calls the
\* adapter, whose first statement sends the request.
Invoke(i, tool, uuid) ==
  /\ proc = "serving"
  /\ Quiet
  /\ inv[i].pc = "idle"
  /\ IF ArgsAccepted(tool, uuid)
     THEN /\ inv' = [inv EXCEPT ![i] =
                       [pc |-> "api", tool |-> tool, uuid |-> uuid,
                        req |-> ClientRequest(config.apiKey, tool, uuid),
                        nreq |-> 1, api |-> NoOutcome]]
          /\ emitted' = emitted
     ELSE /\ inv' = inv
          /\ emitted' = Emit(i, [tool |-> tool, uuid |-> uuid], 0, NoOutcome, NoOutcome,
                             NotCalled, handleError(ErrorOf("project uuid is required")))
  /\ UNCHANGED <<env, proc, config, reduction, stderr, exitCode>>

\* The handler of invocation i resumes: its pending HTTP call ended with out.
\* The call through this.client goes to the adapter operation and, for
\* get_task_screenshot with a URL, on to the second fetch; anything else
\* ends the handler.
Resume(i, out) ==
  LET c == inv[i] IN
  IF c.pc = "api" THEN
    \E r \in {Adapter(c.tool, out)} :
      IF c.tool = "get_task_screenshot" /\ r.ok
      THEN /\ inv' = [inv EXCEPT ![i] =
                        [c EXCEPT !.pc = "image", !.req = ImageRequest(Str(r.val)),
                                  !.nreq = c.nreq + 1, !.api = out]]
           /\ emitted' = emitted
      ELSE \E h \in {Settle(c.tool, c.uuid, r)} :
             /\ inv' = [inv EXCEPT ![i] = Idle]
             /\ emitted' = Emit(i, c, c.nreq, out, NoOutcome, r, h)
  ELSE
    \E r \in {ScreenshotImage(out)} :
      \E h \in {Settle(c.tool, c.uuid, r)} :
        /\ inv' = [inv EXCEPT ![i] = Idle]
        /\ emitted' = Emit(i, c, c.nreq, c.api, out, r, h)

Pending(i) == Quiet /\ inv[i].pc \in {"api", "image"}

\* The remote service answers a call made through this.client.
ApiResponds(i) ==
  /\ Pending(i) /\ inv[i].pc = "api"
  /\ \E st \in ApiStatuses, body \in Bodies : Resume(i, Responded(st, StatusText(st), body))
  /\ UNCHANGED <<env, proc, config, reduction, stderr, exitCode>>

\* The image host answers the second fetch of get_task_screenshot; only a
\* 200 carries the image.
ImageResponds(i) ==
  /\ Pending(i) /\ inv[i].pc = "image"
  /\ \E st \in ImageStatuses, bytes \in Images :
       /\ (st # 200 => bytes = <<>>)
       /\ Resume(i, RespondedBytes(st, StatusText(st), bytes))
  /\ UNCHANGED <<env, proc, config, reduction, stderr, exitCode>>

\* The connection fails: the request was sent and no response came.
Unreachable(i) ==
  /\ Pending(i)
  /\ Resume(i, NoResponse("Network Error"))
  /\ UNCHANGED <<env, proc, config, reduction, stderr, exitCode>>

\* The request could not be built or sent at all.
RequestFails(i) ==
  /\ Pending(i)
  /\ Resume(i, SetupFailure("Invalid URL"))
  /\ UNCHANGED <<env, proc, config, reduction, stderr, exitCode>>

\* The timer of a request that has a timeout fires before any response.
Timeout(i) ==
  /\ Pending(i)
  /\ inv[i].req.timeout > 0
  /\ Resume(i, NoResponse("timeout of " \o ToString(inv[i].req.timeout) \o "ms exceeded"))
  /\ UNCHANGED <<env, proc, config, reduction, stderr, exitCode>>

\* The response of the finished handler is written to the transport.
Deliver ==
  /\ ~Quiet
  /\ emitted' = NoEmit
  /\ UNCHANGED <<env, proc, config, inv, reduction, stderr, exitCode>>

\* The arguments a caller may send to a tool: a uuid for the tools that
\* take one, none for the others.
ArgsOf(tool) == IF tool \in IdTools THEN Uuids ELSE {JUndef}

Call(i) == \E tool \in Tools : \E uuid \in ArgsOf(tool) : Invoke(i, tool, uuid)

Next ==
  \/ Main
  \/ \E i \in Invs : Call(i)
  \/ \E i \in Invs : ApiResponds(i)
  \/ \E i \in Invs : ImageResponds(i)
  \/ \E i \in Invs : Unreachable(i)
  \/ \E i \in Invs : RequestFails(i)
  \/ \E i \in Invs : Timeout(i)
  \/ Deliver

Spec == Init /\ [][Next]_vars

\* Fairness of the event loop: a timer that is armed fires once the loop
\* gets to it, however often other handlers run in between, and a returned
\* response is written out.  Nothing makes a remote host answer.
FairSpec == Spec /\ WF_vars(Deliver) /\ \A i \in Invs : SF_vars(Timeout(i))

\* ------------------------------------------ the handlers over any adapter
\* The tool handlers alone: the adapter call a handler awaits may return any
\* value or throw any value.
StubReturns ==
  {JUndef, JNull, JBool(FALSE), JBool(TRUE), JStr(""), JStr("some text"), TaskBody, JArr(<< <<"0", ScStr("p-1")>> >>)}
StubThrows ==
  {McpError(JNum(401), JStr("Unauthorized: Invalid or missing API key"), ProjectNotFound),
   McpError(JNum(0), JStr("Network Error: Unable to reach Webvizio API"), JUndef),
   ErrorOf("boom"),
   AxiosErrorOf("ERR_NETWORK", "Network Error"),
   ThrownValue(JNull), ThrownValue(JUndef), ThrownValue(JStr("oops")), ThrownValue(JNum(0)),
   ThrownValue(ProjectNotFound)}

\* A handler up to its await of the adapter (set_project's own check first).
StubInvoke(i, tool, uuid) ==
  /\ proc = "serving"
  /\ Quiet
  /\ inv[i].pc = "idle"
  /\ IF ArgsAccepted(tool, uuid)
     THEN /\ inv' = [inv EXCEPT ![i] =
                       [pc |-> "adapter", tool |-> tool, uuid |-> uuid,
                        req |-> NoReq, nreq |-> 0, api |-> NoOutcome]]
          /\ emitted' = emitted
     ELSE /\ inv' = inv
          /\ emitted' = Emit(i, [tool |-> tool, uuid |-> uuid], 0, NoOutcome, NoOutcome,
                             NotCalled, handleError(ErrorOf("project uuid is required")))
  /\ UNCHANGED <<env, proc, config, reduction, stderr, exitCode>>

StubCall(i) == \E tool \in Tools : \E uuid \in ArgsOf(tool) : StubInvoke(i, tool, uuid)

\* The awaited adapter call ends with r and the handler runs to its end.
StubResume(i, r) ==
  /\ inv' = [inv EXCEPT ![i] = Idle]
  /\ emitted' = Emit(i, inv[i], 0, NoOutcome, NoOutcome, r, Settle(inv[i].tool, inv[i].uuid, r))

AdapterReturns(i) ==
  /\ Quiet /\ inv[i].pc = "adapter"
  /\ \E v \in StubReturns : StubResume(i, Return(v))
  /\ UNCHANGED <<env, proc, config, reduction, stderr, exitCode>>

AdapterThrows(i) ==
  /\ Quiet /\ inv[i].pc = "adapter"
  /\ \E e \in StubThrows : StubResume(i, Throw(e))
  /\ UNCHANGED <<env, proc, config, reduction, stderr, exitCode>>

NextStub ==
  \/ Main
  \/ \E i \in Invs : StubCall(i)
  \/ \E i \in Invs : AdapterReturns(i)
  \/ \E i \in Invs : AdapterThrows(i)
  \/ Deliver

StubSpec == Init /\ [][NextStub]_vars

\* ------------------------------------------------- error reduction alone
\* The response interceptor's error branch on any rejection the HTTP library
\* can produce: a response with a non-2xx status, a request without
\* response, or neither.
ReduceStatuses == {400, 401, 403, 404, 418, 429, 500, 503}
ReduceBodies ==
  {JUndef, JNull, JStr(""), JStr("plain text"), JObj(<<>>), ProjectNotFound,
   JObj(<< <<"error", ScStr("Bad uuid")>> >>),
   JObj(<< <<"message", ScStr("")>>, <<"error", ScStr("Bad uuid")>> >>),
   JObj(<< <<"message", ScStr("Quota")>>, <<"error", ScStr("Bad uuid")>> >>)}
ReduceTexts == {"", "Status Text"}
ReduceMessages == {"Network Error", "timeout of 30000ms exceeded", "Invalid URL"}
Rejections ==
  {RejectionOf(Responded(st, txt, body)) : st \in ReduceStatuses, txt \in ReduceTexts, body \in ReduceBodies}
    \cup {RejectionOf(NoResponse(m)) : m \in ReduceMessages}
    \cup {RejectionOf(SetupFailure(m)) : m \in ReduceMessages}

Reject ==
  /\ proc = "serving"
  /\ \E e \in Rejections : reduction' = [error |-> e, result |-> handleApiError(e)]
  /\ UNCHANGED <<env, proc, config, inv, emitted, stderr, exitCode>>

NextReduce == Main \/ Reject

ReduceSpec == Init /\ [][NextReduce]_vars

\* ================================================================ claims
Done == emitted.id # 0
ApiAnswered(st) == emitted.api.k = "response" /\ emitted.api.status = st
LogTools == {"get_task_console_logs", "get_task_network_logs", "get_task_action_logs"}
LogKind(tool) ==
  CASE tool = "get_task_console_logs" -> "console"
    [] tool = "get_task_network_logs" -> "network"
    [] OTHER -> "action"

\* C1: whatever the tool and whatever the response body, a 401 answer to the
\* authenticated call gives a response marked isError whose text starts
\* with "Error 401: Unauthorized: Invalid or missing API key".
C1_Unauthorized401 ==
  (Done /\ ApiAnswered(401)) =>
    /\ emitted.resp.isError
    /\ StartsWith(emitted.resp.text, "Error 401: Unauthorized: Invalid or missing API key")

\* C2: get_tasks: when the /tasks call fails and the details of the reduced
\* error have the message "Project not found", getTasks returns the sentinel
\* false and the response is the hint, not marked isError; every other
\* failure of /tasks gives a response marked isError.
C2_ProjectNotFoundIsHint ==
  (Done /\ emitted.tool = "get_tasks" /\ Rejects(emitted.api)) =>
    IF OptGet(handleApiError(RejectionOf(emitted.api)).details, "message") = JStr("Project not found")
    THEN /\ emitted.ret = Return(JBool(FALSE))
         /\ emitted.resp = TextResp(NoProjectHint)
    ELSE /\ ~emitted.ret.ok
         /\ emitted.resp.isError

\* C2 witness: a 404 of /tasks with the body {message: "Project not found"}
\* has been answered with the hint.
C2_Witness ==
  /\ Done /\ emitted.tool = "get_tasks" /\ ApiAnswered(404)
  /\ emitted.api.data = ProjectNotFound
  /\ ~emitted.resp.isError
  /\ emitted.resp.text = NoProjectHint

\* C3: the three log tools answer a 2xx response whose log payload is empty
\* or falsy with the text "No <kind> logs found", not marked isError.
C3_EmptyLogsText ==
  (Done /\ emitted.tool \in LogTools /\ ~Rejects(emitted.api)
        /\ ~Truthy(OptGet(emitted.api.data, "prompt"))) =>
    emitted.resp = TextResp("No " \o LogKind(emitted.tool) \o " logs found")

\* C4: a tool that takes an identifier, invoked with a missing or empty one,
\* answers with a response marked isError and has sent no HTTP request.
C4_EmptyIdFailsLocally ==
  (Done /\ emitted.tool \in IdTools /\ ~Truthy(emitted.uuid)) =>
    /\ emitted.resp.isError
    /\ emitted.nreq = 0

AdapterReturned == Done /\ emitted.ret.ok
AdapterThrew == Done /\ ~emitted.ret.ok /\ emitted.ret.exc # NoExc

\* C5: set_project with identifier X answers "Successfully set project X as
\* current" when setProject returned a truthy value and "Failed to set
\* project X as current" when it returned a falsy one, in both cases not
\* marked isError.
C5_SetProjectText ==
  (AdapterReturned /\ emitted.tool = "set_project") =>
    /\ ~emitted.resp.isError
    /\ emitted.resp.type = "text"
    /\ emitted.resp.text =
         (IF Truthy(emitted.ret.val) THEN "Successfully set project " ELSE "Failed to set project ")
           \o emitted.uuid.s \o " as current"

\* C5 witness: setProject returned a falsy value for proj-123 and the
\* response is the failure sentence.
C5_Witness ==
  /\ AdapterReturned /\ emitted.tool = "set_project"
  /\ ~Truthy(emitted.ret.val)
  /\ emitted.resp.text = "Failed to set project proj-123 as current"

\* C6: no invocation stays pending forever: every HTTP call that gets no
\* response is ended by the 30-second timeout.
C6_EveryCallEnds == \A i \in Invs : (inv[i].pc # "idle") ~> (inv[i].pc = "idle")

\* C7: with any number of invocations in flight, a step that ends a handler
\* leaves every other invocation as it was and answers for its own tool and
\* arguments; and whatever was thrown inside it (by the adapter or by the
\* handler) is the value handleError got and has become a response marked
\* isError: no exception leaves the handler.
C7_ThrowBecomesErrorResponse ==
  [][(emitted.id = 0 /\ emitted'.id # 0) =>
       /\ \A j \in Invs \ {emitted'.id} : inv'[j] = inv[j]
       /\ (inv[emitted'.id].pc # "idle" =>
             /\ emitted'.tool = inv[emitted'.id].tool
             /\ emitted'.uuid = inv[emitted'.id].uuid
             /\ inv'[emitted'.id] = Idle)
       /\ ((~emitted'.ret.ok \/ emitted'.caught # NoExc \/ emitted'.escaped) =>
             /\ ~emitted'.escaped
             /\ emitted'.resp.isError
             /\ (emitted'.ret.exc # NoExc => emitted'.caught = emitted'.ret.exc))]_vars

\* C7 witness: the adapter threw null while another invocation was in
\* flight, and the response is marked isError.
C7_Witness ==
  /\ AdapterThrew /\ emitted.caught = ThrownValue(JNull)
  /\ emitted.resp.isError /\ ~emitted.escaped
  /\ \E j \in Invs : j # emitted.id /\ inv[j].pc = "adapter"

Base64Index(c) == CHOOSE n \in 0..63 : Base64Char(n) = c
\* The bytes a base64 text stands for; <<-1>> for a text that is not base64.
RECURSIVE Base64Decode(_)
Base64Decode(txt) ==
  IF txt = "" THEN <<>>
  ELSE IF Len(txt) < 4 THEN <<-1>>
  ELSE
    LET c1 == Base64Index(SubSeq(txt, 1, 1))
        c2 == Base64Index(SubSeq(txt, 2, 2))
        c3 == Base64Index(SubSeq(txt, 3, 3))
        c4 == Base64Index(SubSeq(txt, 4, 4))
        b1 == c1 * 4 + c2 \div 16
        b2 == (c2 % 16) * 16 + c3 \div 4
        b3 == (c3 % 4) * 64 + c4
    IN
    IF SubSeq(txt, 3, 4) = "==" THEN <<b1>>
    ELSE IF SubSeq(txt, 4, 4) = "=" THEN <<b1, b2>>
    ELSE <<b1, b2, b3>> \o Base64Decode(SubSeq(txt, 5, Len(txt)))

\* C8: get_task_screenshot, when the metadata call gave a URL and the fetch
\* of that URL succeeded with bytes B, answers with an image item, mimeType
\* "image/png", not marked isError, whose data is a base64 string that
\* decodes to exactly B.
C8_ScreenshotRoundTrip ==
  (Done /\ emitted.tool = "get_task_screenshot" /\ emitted.img.k = "response"
        /\ ~Rejects(emitted.img)) =>
    /\ ~emitted.resp.isError
    /\ emitted.resp.type = "image"
    /\ emitted.resp.mimeType = "image/png"
    /\ emitted.resp.data.t = "string"
    /\ Base64Decode(emitted.resp.data.s) = emitted.img.bytes

\* C8 witness: the two bytes 0x89 0xFF came back and the image data is "if8=".
C8_Witness ==
  /\ Done /\ emitted.tool = "get_task_screenshot"
  /\ emitted.img.k = "response" /\ emitted.img.bytes = <<137, 255>>
  /\ emitted.resp.type = "image"
  /\ emitted.resp.data = JStr("if8=")

InFlight(i) == inv[i].pc \in {"api", "image"}

\* C9 as stated: every outbound request of the adapter carries the header
\* Authorization: Bearer <configured API key>.
C9_EveryRequestAuthorized ==
  \A i \in Invs : InFlight(i) => inv[i].req.auth = "Bearer " \o env.s

\* C9 amended: every request made through the adapter's client carries
\* Authorization: Bearer <the key of the environment at start-up>, the
\* configuration holding that key from start-up on; the second fetch of
\* getTaskScreenshot carries no Authorization header.
C9_ClientRequestsAuthorized ==
  /\ proc = "serving" => config.apiKey = env.s
  /\ \A i \in Invs : InFlight(i) =>
       IF inv[i].pc = "api"
       THEN inv[i].req.via = "client" /\ inv[i].req.auth = "Bearer " \o env.s
       ELSE inv[i].req.via = "axios" /\ inv[i].req.auth = ""

\* C9 witness: a request through the client and the image fetch of another
\* invocation are in flight together.
C9_Witness ==
  \E i, j \in Invs :
    /\ inv[i].pc = "api" /\ inv[i].req.auth = "Bearer wv-key-1"
    /\ inv[j].pc = "image" /\ inv[j].req.auth = ""

FixedMessage(st) ==
  CASE st = 401 -> "Unauthorized: Invalid or missing API key"
    [] st = 403 -> "Forbidden: Access denied"
    [] st = 404 -> "Not Found: Resource not found"
    [] st = 429 -> "Rate Limit Exceeded: Too many requests"
    [] OTHER -> "Internal Server Error: Webvizio API error"

\* C10: error reduction classifies every rejection three ways.  With a
\* response: the code is the status, the details are the body, the message
\* is the fixed one for 401/403/404/429/500 and otherwise the body's
\* message, else the body's error, else "HTTP <status>: <statusText>".
\* With a request and no response: code 0.  Otherwise: code -1.  The
\* message is never null or undefined.
C10_ReductionIsThreeWay ==
  reduction # NoReduction =>
    LET e == reduction.error
        r == reduction.result
    IN
    /\ r.cls = "McpError"
    /\ ~Nullish(r.message)
    /\ IF e.hasResponse THEN
         /\ r.code = JNum(e.status)
         /\ r.details = e.data
         /\ IF e.status \in {401, 403, 404, 429, 500}
            THEN r.message = JStr(FixedMessage(e.status))
            ELSE IF Truthy(OptGet(e.data, "message")) THEN r.message = OptGet(e.data, "message")
            ELSE IF Truthy(OptGet(e.data, "error")) THEN r.message = OptGet(e.data, "error")
            ELSE r.message = JStr("HTTP " \o ToString(e.status) \o ": " \o e.statusText)
       ELSE IF e.hasRequest THEN r.code = JNum(0)
       ELSE r.code = JNum(-1)

\* C10 witness: a 418 whose body has an empty message and an error has
\* been reduced to the body's error.
C10_Witness ==
  /\ reduction # NoReduction
  /\ reduction.error.hasResponse /\ reduction.error.status = 418
  /\ OptGet(reduction.error.data, "message") = JStr("")
  /\ reduction.result.message = JStr("Bad uuid")
  /\ reduction.result.code = JNum(418)

\* error instanceof Error
CaughtIsError(e) == e.cls \in {"Error", "TypeError", "AxiosError"}
\* A normalized error as error reduction makes it: the three keys, with a
\* numeric code.
IsNormalized(e) == e.cls = "McpError" /\ e.code.t = "number"

\* C11: handleError renders what it caught as "Error <code>: <message>"
\* (with "\nDetails: <pretty-printed details>" when there are details) if
\* and only if it is a normalized error of error reduction, whose code is
\* a number; anything else is rendered "Error: <message>" for an Error and
\* "Error: Unknown error occurred" otherwise.
C11_CodedIffNormalized ==
  (Done /\ emitted.caught # NoExc) =>
    LET e == emitted.caught IN
    /\ emitted.resp.isError
    /\ emitted.resp.text =
         (IF IsNormalized(e)
          THEN "Error " \o e.code.s \o ": " \o Str(e.message)
                 \o (IF Truthy(e.details) THEN "\nDetails: " \o Stringify(e.details) ELSE "")
          ELSE IF CaughtIsError(e) THEN "Error: " \o Str(e.message)
          ELSE "Error: Unknown error occurred")

FailedCall(out) == out.k # "none" /\ Rejects(out)

\* C14: whenever an outbound call of an adapter operation failed (a status
\* outside 2xx, no response, a request not sent), the image fetch of
\* getTaskScreenshot included, what the operation throws to the handler is
\* a normalized error with a numeric code, never the HTTP library's error.
C14_FailuresArriveNormalized ==
  (AdapterThrew /\ (FailedCall(emitted.api) \/ FailedCall(emitted.img))) =>
    IsNormalized(emitted.ret.exc)

BodyTools == {"get_projects", "get_current_project", "set_project", "get_tasks"}
FieldTools == {"get_task_description", "get_task_prompt", "get_task_screenshot"}
FieldOf(tool) ==
  CASE tool = "get_task_description" -> "description"
    [] tool = "get_task_prompt" -> "prompt"
    [] OTHER -> "screenshot"

\* The call through this.client succeeded and the body lacks what the
\* operation returns: the body itself for the first four, its field for
\* the other three.
LacksContent ==
  /\ Done /\ emitted.api.k = "response" /\ ~Rejects(emitted.api)
  /\ \/ emitted.tool \in BodyTools /\ ~Truthy(emitted.api.data)
     \/ emitted.tool \in FieldTools
          /\ ~Truthy(OptGet(emitted.api.data, FieldOf(emitted.tool)))

\* C12: for getProjects, getCurrentProject, setProject, getTasks (empty
\* body) and getTaskDescription, getTaskPrompt, getTaskScreenshot (missing
\* field), a 2xx response without the expected content makes the operation
\* throw an Error that is not a normalized error, after its one request;
\* the tool response is marked isError, reads "Error: <message>", and is
\* never built from the missing value.
C12_MissingContentIsGenericError ==
  LacksContent =>
    /\ ~emitted.ret.ok
    /\ emitted.ret.exc.cls \in {"Error", "TypeError"}
    /\ emitted.caught = emitted.ret.exc
    /\ emitted.nreq = 1
    /\ emitted.resp.isError
    /\ emitted.resp.type = "text"
    /\ emitted.resp.text = "Error: " \o emitted.ret.exc.message.s

\* C12 witness: get_task_prompt got 200 with the body {} and answered with
\* the failure of getTaskPrompt.
C12_Witness ==
  /\ LacksContent /\ emitted.tool = "get_task_prompt"
  /\ emitted.api.data = JObj(<<>>)
  /\ emitted.resp = ErrorResp("Error: Failed to get task prompt")

\* C15: close_task answers exactly "Task closed successfully", not marked
\* isError, whenever closeTask returned, whatever the success flag of the
\* remote response was (false and absent included); it answers with an
\* error response only when the remote call failed or the response body
\* was null or undefined.
C15_CloseTaskAlwaysConfirms ==
  (Done /\ emitted.tool = "close_task") =>
    IF Rejects(emitted.api) \/ Nullish(emitted.api.data)
    THEN ~emitted.ret.ok /\ emitted.resp.isError
    ELSE /\ emitted.ret = Return(Get(emitted.api.data, "success"))
         /\ emitted.resp = TextResp("Task closed successfully")

\* C15 witness: the remote call answered 200 with success false and the
\* response is the confirmation.
C15_Witness ==
  /\ Done /\ emitted.tool = "close_task"
  /\ ApiAnswered(200) /\ Get(emitted.api.data, "success") = JBool(FALSE)
  /\ emitted.ret = Return(JBool(FALSE))
  /\ emitted.resp.text = "Task closed successfully" /\ ~emitted.resp.isError

\* C16: setProject never returns a falsy value: it returns the truthy body
\* of a 2xx response or throws.  So the set_project tool never answers
\* "Failed to set project ... as current": it confirms when setProject
\* returned, and every other set_project ends in a response marked isError.
C16_SetProjectNeverFalsy ==
  (Done /\ emitted.tool = "set_project") =>
    /\ emitted.ret.ok => Truthy(emitted.ret.val) /\ emitted.ret.val = emitted.api.data
    /\ ~StartsWith(emitted.resp.text, "Failed to set project")
    /\ IF emitted.ret.ok
       THEN emitted.resp =
              TextResp("Successfully set project " \o emitted.uuid.s \o " as current")
       ELSE emitted.resp.isError

\* C16 witness: POST /set-project answered 200 with a null body and the
\* tool answered with the failure thrown by setProject.
C16_Witness ==
  /\ Done /\ emitted.tool = "set_project"
  /\ ApiAnswered(200) /\ emitted.api.data = JNull
  /\ emitted.resp = ErrorResp("Error: Failed to set project")

\* C13: when the API key is absent or empty at start-up, getConfig throws
\* and main() prints the configuration help and exits with status 1; in
\* that run the server is never connected to the transport, no invocation
\* is ever taken and no response is ever written.  With a key, the process
\* does not exit at start-up.
C13_FailFastWithoutKey ==
  /\ ~Truthy(env) =>
       /\ proc \in {"boot", "exited"}
       /\ \A i \in Invs : inv[i] = Idle
       /\ emitted = NoEmit
       /\ proc = "exited" =>
            /\ exitCode = JNum(1)
            /\ Len(stderr) = 1 + Len(ConfigurationHelp)
            /\ stderr[1] = "Failed to start Webvizio MCP Server: Error: WEBVIZIO_API_KEY environment variable is required"
            /\ stderr[3] = "Configuration Help:"
            /\ SubSeq(stderr, 2, Len(stderr)) = ConfigurationHelp
  /\ Truthy(env) => proc # "exited" /\ exitCode = JUndef /\ stderr = <<>>

\* C13 witness: started with an empty key, the process has exited with
\* status 1 after printing the help.
C13_Witness ==
  /\ env = JStr("") /\ proc = "exited" /\ exitCode = JNum(1)
  /\ Len(stderr) > 1 /\ stderr[3] = "Configuration Help:"
====
